---- MODULE Spec2Model ----
(***************************************************************************)
(* Model of the repository dependency analyzer:                            *)
(*   - the worklist loop of the `analyze` command (src/cli.ts),            *)
(*   - PathMapper.map in its two versions and the path utilities.          *)
(* Path strings are sequences of one-character strings.                    *)
(***************************************************************************)
EXTENDS Integers, Sequences, FiniteSets, TLC

VARIABLES
  entryPoints,       \* cli.ts:101   units the run starts from
  fileTypes,         \* the file system as seen by determineFileType
  processQueue,      \* cli.ts:111   the worklist
  currentIteration,  \* cli.ts:125
  output,            \* cli.ts:126   aggregate read/write/execute/error lists
  fileDependencies,  \* cli.ts:133   map: absolute path -> edge list
  processedFiles,    \* cli.ts:138   visited set
  pc,                \* position of the analyze action
  inFlight,          \* the unit whose agent.analyzeFile call is awaited
  report,            \* what writeOutputFile was given
  log,               \* history: one entry per dequeue, in dequeue order
  platform,          \* process.platform of the PathMapper run
  mappings,          \* PathMapper rules
  mapInput,          \* argument of PathMapper.map
  mapState,          \* position of the PathMapper run
  mapped,            \* result of PathMapper.map (unnamed/part_001)
  mappedTs,          \* result of PathMapper.map (src/core/PathMapper.ts)
  constructedBy,     \* how the PathMapper was built: constructor or fromConfig
  pathState,         \* position of the path conversion run
  pathInput,         \* argument of toUnixPath
  unixPath,          \* toUnixPath(pathInput)
  platformPath,      \* fromUnixPath(unixPath)
  roundTrip,         \* toUnixPath(platformPath)
  graph,             \* fileDependencies argument of visualizeDependencyGraph
  selectedPaths,     \* selectedPaths argument of visualizeDependencyGraph
  treeState,         \* position of the visualizeDependencyGraph run
  stack,             \* pending calls of buildTree and top-level steps
  lines              \* lines pushed so far

loopVars == <<entryPoints, fileTypes, processQueue, currentIteration, output,
              fileDependencies, processedFiles, pc, inFlight, report, log>>
mapVars == <<platform, mappings, mapInput, mapState, mapped, mappedTs,
             constructedBy, pathState, pathInput, unixPath, platformPath,
             roundTrip>>
treeVars == <<graph, selectedPaths, treeState, stack, lines>>
vars == <<entryPoints, fileTypes, processQueue, currentIteration, output,
          fileDependencies, processedFiles, pc, inFlight, report, log,
          platform, mappings, mapInput, mapState, mapped, mappedTs,
          constructedBy, pathState, pathInput, unixPath, platformPath,
          roundTrip, graph, selectedPaths, treeState, stack, lines>>

----------------------------------------------------------------------------
(* Strings *)

Undefined == "undefined"

StartsWith(s, p) == Len(s) >= Len(p) /\ SubSeq(s, 1, Len(p)) = p

EndsWith(s, p) ==
  Len(s) >= Len(p) /\ SubSeq(s, Len(s) - Len(p) + 1, Len(s)) = p

Slice(s, n) == SubSeq(s, n + 1, Len(s))

Includes(s, c) == \E i \in 1..Len(s) : s[i] = c

ReplaceAll(s, c, d) == [i \in 1..Len(s) |-> IF s[i] = c THEN d ELSE s[i]]

RECURSIVE Flatten(_)
Flatten(ss) == IF ss = <<>> THEN <<>> ELSE Head(ss) \o Flatten(Tail(ss))

RECURSIVE SplitAt(_, _, _, _, _)
SplitAt(s, sep, i, cur, acc) ==
  IF i > Len(s) THEN Append(acc, cur)
  ELSE IF s[i] = sep THEN SplitAt(s, sep, i + 1, <<>>, Append(acc, cur))
  ELSE SplitAt(s, sep, i + 1, Append(cur, s[i]), acc)

Split(s, sep) == SplitAt(s, sep, 1, <<>>, <<>>)

RECURSIVE Join(_, _)
Join(segs, sep) ==
  IF segs = <<>> THEN <<>>
  ELSE IF Len(segs) = 1 THEN Head(segs)
  ELSE Head(segs) \o <<sep>> \o Join(Tail(segs), sep)

SeqsUpTo(S, n) == UNION {[1..k -> S] : k \in 0..n}

----------------------------------------------------------------------------
(* resolveUnixPath = path.posix.resolve *)

ProcessCwd == <<"/", "w">>

RECURSIVE normalizeString(_, _)
normalizeString(segs, acc) ==
  IF segs = <<>> THEN acc
  ELSE LET s == Head(segs) IN
       IF s = <<>> \/ s = <<".">> THEN normalizeString(Tail(segs), acc)
       ELSE IF s = <<".", ".">>
            THEN normalizeString(Tail(segs),
                   IF acc = <<>> THEN acc ELSE SubSeq(acc, 1, Len(acc) - 1))
            ELSE normalizeString(Tail(segs), Append(acc, s))

resolveUnixPath(pwd, path) ==
  LET r0 == path
      r1 == IF StartsWith(r0, <<"/">>) THEN r0
            ELSE IF pwd = <<>> THEN r0
            ELSE pwd \o <<"/">> \o r0
      r2 == IF StartsWith(r1, <<"/">>) THEN r1
            ELSE ProcessCwd \o <<"/">> \o r1
  IN <<"/">> \o Join(normalizeString(Split(r2, "/"), <<>>), "/")

----------------------------------------------------------------------------
(* Inputs of the analyze command: entry points, oracle replies, file system *)

MAX_ITERATIONS == 100

MaxEntries == 2     \* length of the short entry point lists
MaxList == 2        \* entries per list of an oracle record

PathM == <<"m">>
PathX == <<"x">>
PathAbsX == <<"/", "a", "/", "x">>
PathUpB == <<".", ".", "/", "b">>
PwdA == <<"/", "a">>
PwdRoot == <<"/">>
AbsM == <<"/", "a", "/", "m">>
AbsX == <<"/", "a", "/", "x">>
AbsB == <<"/", "b">>
PathCfg == <<"/", "c">>
PathLog == <<"l">>

Unit(pwd, path, args) ==
  [pwd |-> pwd, path |-> path, args |-> args,
   description |-> Undefined, fileType |-> Undefined]

EntryM == Unit(PwdA, PathM, <<>>)
EntryB == Unit(PwdA, PathUpB, <<"-c">>)
EntryUnits == {EntryM, EntryB}

LongEntryList ==
  [i \in 1..MAX_ITERATIONS |-> IF i % 2 = 1 THEN EntryM ELSE EntryB]

EntryLists == SeqsUpTo(EntryUnits, MaxEntries) \cup {LongEntryList}

FileEntry(path, d) == [path |-> path, description |-> d]

ExecEntry(pwd, path, args, d) ==
  [path |-> path, pwd |-> pwd, args |-> args, description |-> d]

ExecX == ExecEntry(PwdA, PathX, <<>>, "d1")
ExecAbsX == ExecEntry(PwdRoot, PathAbsX, <<"-v">>, Undefined)
ExecB == ExecEntry(PwdA, PathUpB, <<>>, "d2")
ExecM == ExecEntry(PwdA, PathM, <<>>, Undefined)

AnalysisResult(r, w, x, e) ==
  [readFiles |-> r, writeFiles |-> w, executeFiles |-> x, errors |-> e]

EmptyResult == AnalysisResult(<<>>, <<>>, <<>>, <<>>)

ReplyTemplates ==
  { AnalysisResult(
      <<FileEntry(PathCfg, "d1"), FileEntry(PathCfg, "d2"),
        FileEntry(PathLog, Undefined)>>,
      <<FileEntry(PathLog, "d1"), FileEntry(PathCfg, Undefined),
        FileEntry(PathLog, "d2")>>,
      <<ExecX, ExecB, ExecAbsX>>,
      <<>>),
    AnalysisResult(
      <<FileEntry(PathCfg, "d2"), FileEntry(PathLog, "d1"),
        FileEntry(PathCfg, "d1")>>,
      <<>>,
      <<ExecAbsX, ExecX, ExecB>>,
      <<[path |-> PathCfg, pwd |-> PwdA, error |-> "ENOENT"]>>),
    AnalysisResult(
      <<>>,
      <<FileEntry(PathLog, "d2"), FileEntry(PathLog, "d1"),
        FileEntry(PathCfg, "d1")>>,
      <<ExecB, ExecM, ExecX>>,
      <<>>) }

Prefix(s, n) == SubSeq(s, 1, IF Len(s) < n THEN Len(s) ELSE n)

Truncate(t, n) ==
  AnalysisResult(Prefix(t.readFiles, n), Prefix(t.writeFiles, n),
                 Prefix(t.executeFiles, n), Prefix(t.errors, n))

OracleRecords == {Truncate(t, n) : t \in ReplyTemplates, n \in 0..MaxList}

FileSystems ==
  { [p \in {AbsM, AbsX, AbsB} |-> Undefined],
    [p \in {AbsM, AbsX, AbsB} |-> IF p = AbsB THEN "elf" ELSE Undefined],
    [p \in {AbsM, AbsX, AbsB} |-> IF p = AbsX THEN "unknown" ELSE Undefined] }

----------------------------------------------------------------------------
(* The analyze command: worklist loop (cli.ts:99-224) *)

\* keeps the last entry of each path instead of the first
uniqueByPathLast(array) ==
  LET keep == {i \in 1..Len(array) :
                 \A j \in (i + 1)..Len(array) : array[j].path # array[i].path}
      RECURSIVE filter(_)
      filter(i) == IF i > Len(array) THEN <<>>
                   ELSE IF i \in keep THEN <<array[i]>> \o filter(i + 1)
                   ELSE filter(i + 1)
  IN filter(1)

uniqueByPath(array) ==
  LET keep == {i \in 1..Len(array) :
                 \A j \in 1..(i - 1) : array[j].path # array[i].path}
      RECURSIVE filter(_)
      filter(i) == IF i > Len(array) THEN <<>>
                   ELSE IF i \in keep THEN <<array[i]>> \o filter(i + 1)
                   ELSE filter(i + 1)
  IN filter(1)

determineFileType(file) ==
  LET absolutePath == resolveUnixPath(file.pwd, file.path)
  IN IF absolutePath \in DOMAIN fileTypes THEN fileTypes[absolutePath]
     ELSE Undefined

\* the values of the promises of cli.ts:180-183, by index
executablesWithType(analysisResult) ==
  [i \in 1..Len(analysisResult.executeFiles) |->
     LET file == analysisResult.executeFiles[i]
     IN [pwd |-> file.pwd, path |-> file.path, args |-> file.args,
         description |-> file.description,
         fileType |-> determineFileType(file)]]

Edge(path, action, fileType) ==
  [path |-> path, action |-> action, fileType |-> fileType]

\* the orders in which n promises started together can settle
CompletionOrders(n) ==
  {order \in [1..n -> 1..n] :
     \A i, j \in 1..n : order[i] = order[j] => i = j}

\* the values are collected in the order the promises settle
PromiseAllAsSettled(values, order) ==
  [k \in 1..Len(values) |-> values[order[k]]]

\* Promise.all: each value lands at the index of its promise, cli.ts:179
PromiseAll(values, order) ==
  LET RECURSIVE settle(_, _)
      settle(results, k) ==
        IF k > Len(order) THEN results
        ELSE settle([results EXCEPT ![order[k]] = values[order[k]]], k + 1)
  IN settle([i \in 1..Len(values) |-> Undefined], 1)

\* leaves out execute targets that were visited before
dependenciesOfUnvisited(analysisResult, executables) ==
  [i \in 1..Len(analysisResult.readFiles) |->
     Edge(analysisResult.readFiles[i].path, "read", Undefined)]
  \o [i \in 1..Len(analysisResult.writeFiles) |->
     Edge(analysisResult.writeFiles[i].path, "write", Undefined)]
  \o LET unvisited(f) ==
           resolveUnixPath(f.pwd, f.path) \notin processedFiles
         x == SelectSeq(executables, unvisited)
     IN [i \in 1..Len(x) |-> Edge(x[i].path, "execute", x[i].fileType)]

dependenciesOf(analysisResult, executables) ==
  [i \in 1..Len(analysisResult.readFiles) |->
     Edge(analysisResult.readFiles[i].path, "read", Undefined)]
  \o [i \in 1..Len(analysisResult.writeFiles) |->
     Edge(analysisResult.writeFiles[i].path, "write", Undefined)]
  \o [i \in 1..Len(executables) |->
     LET f == executables[i]
     IN Edge(f.path, "execute", f.fileType)]

\* unshift instead of push
enqueueFront(queue, items) == items \o queue

\* processQueue.push(...executablesWithType), cli.ts:187
enqueue(queue, items) == queue \o items

MapSet(m, k, v) == [x \in DOMAIN m \cup {k} |-> IF x = k THEN v ELSE m[x]]

\* the file read of analyzeFile fails (fileAnalysisAgent.ts:128-143)
ReadErrorResult(params) ==
  AnalysisResult(<<>>, <<>>, <<>>,
    <<[pwd |-> params.pwd, path |-> params.filePath, error |-> "ENOENT"]>>)

analyzeFileParams(nextFile) ==
  [pwd |-> nextFile.pwd, filePath |-> nextFile.path,
   fileType |-> nextFile.fileType, cliArgs |-> nextFile.args]

LogEntry(unit, kind, params, result) ==
  [unit |-> unit, absolutePath |-> resolveUnixPath(unit.pwd, unit.path),
   kind |-> kind, params |-> params, result |-> result]

NoParams == [pwd |-> <<>>, filePath |-> <<>>, fileType |-> Undefined,
             cliArgs |-> <<>>]

NoReport == [written |-> FALSE]

\* the optional selectedPaths argument of visualizeDependencyGraph: left
\* out, or an array of paths
NoSelection == [given |-> FALSE, paths |-> <<>>]
Selection(paths) == [given |-> TRUE, paths |-> paths]

\* off by one: <= instead of <
LoopConditionInclusive ==
  processQueue # <<>> /\ currentIteration <= MAX_ITERATIONS

LoopCondition ==
  processQueue # <<>> /\ currentIteration < MAX_ITERATIONS

nextFile == Head(processQueue)

\* the path as written, not resolved against pwd
absolutePathOfNextUnresolved == nextFile.path

absolutePathOfNext == resolveUnixPath(nextFile.pwd, nextFile.path)

\* looks the path up as written instead of the resolved path
AlreadyProcessedAsWritten == nextFile.path \in processedFiles

AlreadyProcessed == absolutePathOfNext \in processedFiles

\* the binary filter is missing
isBinaryFileNever == FALSE

isBinaryFile == nextFile.fileType # Undefined /\ nextFile.fileType # ""

\* a unit that is already visited stays at the head
DequeueUnlessVisited ==
  processQueue' = IF AlreadyProcessed THEN processQueue
                  ELSE Tail(processQueue)

Dequeue == processQueue' = Tail(processQueue)

Init ==
  /\ entryPoints \in EntryLists
  /\ fileTypes \in FileSystems
  /\ processQueue = entryPoints
  /\ currentIteration = 0
  /\ output = EmptyResult
  /\ fileDependencies = <<>>
  /\ processedFiles = {}
  /\ pc = "loop"
  /\ inFlight = Unit(<<>>, <<>>, <<>>)
  /\ report = NoReport
  /\ log = <<>>
  /\ platform = "posix"
  /\ mappings = <<>>
  /\ mapInput = <<>>
  /\ mapState = "unused"
  /\ mapped = <<>>
  /\ mappedTs = <<>>
  /\ constructedBy = "none"
  /\ pathState = "unused"
  /\ pathInput = <<>>
  /\ unixPath = <<>>
  /\ platformPath = <<>>
  /\ roundTrip = <<>>
  /\ graph = <<>>
  /\ selectedPaths = NoSelection
  /\ treeState = "unused"
  /\ stack = <<>>
  /\ lines = <<>>

\* a skipped duplicate does not advance the iteration counter
SkipDuplicateUncounted ==
  /\ pc = "loop"
  /\ LoopCondition
  /\ AlreadyProcessed
  /\ Dequeue
  /\ log' = Append(log, LogEntry(nextFile, "duplicate", NoParams, EmptyResult))
  /\ UNCHANGED <<entryPoints, fileTypes, currentIteration, output,
                 fileDependencies, processedFiles, pc, inFlight, report>>
  /\ UNCHANGED mapVars
  /\ UNCHANGED treeVars

\* cli.ts:148-154
SkipDuplicate ==
  /\ pc = "loop"
  /\ LoopCondition
  /\ AlreadyProcessed
  /\ currentIteration' = currentIteration + 1
  /\ Dequeue
  /\ log' = Append(log, LogEntry(nextFile, "duplicate", NoParams, EmptyResult))
  /\ UNCHANGED <<entryPoints, fileTypes, output, fileDependencies,
                 processedFiles, pc, inFlight, report>>
  /\ UNCHANGED mapVars
  /\ UNCHANGED treeVars

\* the binary filter runs before the unit is marked visited
SkipBinaryUnvisited ==
  /\ pc = "loop"
  /\ LoopCondition
  /\ ~AlreadyProcessed
  /\ isBinaryFile
  /\ currentIteration' = currentIteration + 1
  /\ Dequeue
  /\ log' = Append(log, LogEntry(nextFile, "binary", NoParams, EmptyResult))
  /\ UNCHANGED <<entryPoints, fileTypes, output, fileDependencies,
                 processedFiles, pc, inFlight, report>>
  /\ UNCHANGED mapVars
  /\ UNCHANGED treeVars

\* cli.ts:156-166
SkipBinary ==
  /\ pc = "loop"
  /\ LoopCondition
  /\ ~AlreadyProcessed
  /\ isBinaryFile
  /\ currentIteration' = currentIteration + 1
  /\ Dequeue
  /\ processedFiles' = processedFiles \cup {absolutePathOfNext}
  /\ log' = Append(log, LogEntry(nextFile, "binary", NoParams, EmptyResult))
  /\ UNCHANGED <<entryPoints, fileTypes, output, fileDependencies, pc,
                 inFlight, report>>
  /\ UNCHANGED mapVars
  /\ UNCHANGED treeVars

\* cli.ts:148-173, up to the await of agent.analyzeFile
AnalyzeStart ==
  /\ pc = "loop"
  /\ LoopCondition
  /\ ~AlreadyProcessed
  /\ ~isBinaryFile
  /\ currentIteration' = currentIteration + 1
  /\ Dequeue
  /\ processedFiles' = processedFiles \cup {absolutePathOfNext}
  /\ inFlight' = nextFile
  /\ pc' = "analyzing"
  /\ log' = Append(log, LogEntry(nextFile, "analyzing",
                                 analyzeFileParams(nextFile), EmptyResult))
  /\ UNCHANGED <<entryPoints, fileTypes, output, fileDependencies, report>>
  /\ UNCHANGED mapVars
  /\ UNCHANGED treeVars

SetLast(kind, result) ==
  log' = [log EXCEPT ![Len(log)] =
            [@ EXCEPT !.kind = kind, !.result = result]]

\* cli.ts:175-210 with a record
AnalyzeRecord(analysisResult) ==
  /\ pc = "analyzing"
  /\ \E order \in CompletionOrders(Len(analysisResult.executeFiles)) :
       LET executables ==
             PromiseAll(executablesWithType(analysisResult), order)
       IN /\ output' =
               [readFiles |-> output.readFiles \o analysisResult.readFiles,
                writeFiles |-> output.writeFiles \o analysisResult.writeFiles,
                executeFiles |-> output.executeFiles \o executables,
                errors |-> output.errors \o analysisResult.errors]
          /\ processQueue' = enqueue(processQueue, executables)
          /\ fileDependencies' =
               MapSet(fileDependencies,
                      resolveUnixPath(inFlight.pwd, inFlight.path),
                      dependenciesOf(analysisResult, executables))
  /\ pc' = "loop"
  /\ SetLast("analyzed", analysisResult)
  /\ UNCHANGED <<entryPoints, fileTypes, currentIteration, processedFiles,
                 inFlight, report>>
  /\ UNCHANGED mapVars
  /\ UNCHANGED treeVars

\* analyzeFile returns the oracle's record (fileAnalysisAgent.ts:146-182)
AnalyzeReturn == \E r \in OracleRecords : AnalyzeRecord(r)

\* analyzeFile cannot read the file (fileAnalysisAgent.ts:128-143)
AnalyzeReadError == AnalyzeRecord(ReadErrorResult(analyzeFileParams(inFlight)))

\* parseAnalysisFromResponse returns undefined (fileAnalysisAgent.ts:290-302)
AnalyzeUndefined ==
  /\ pc = "analyzing"
  /\ fileDependencies' =
       MapSet(fileDependencies,
              resolveUnixPath(inFlight.pwd, inFlight.path), <<>>)
  /\ pc' = "loop"
  /\ SetLast("undefined", EmptyResult)
  /\ UNCHANGED <<entryPoints, fileTypes, processQueue, currentIteration,
                 output, processedFiles, inFlight, report>>
  /\ UNCHANGED mapVars
  /\ UNCHANGED treeVars

\* generateText rejects; the catch of the action exits (cli.ts:229-232)
AnalyzeThrow ==
  /\ pc = "analyzing"
  /\ pc' = "exit1"
  /\ SetLast("threw", EmptyResult)
  /\ UNCHANGED <<entryPoints, fileTypes, processQueue, currentIteration,
                 output, fileDependencies, processedFiles, inFlight, report>>
  /\ UNCHANGED mapVars
  /\ UNCHANGED treeVars

\* cli.ts:140 (the loop condition fails) and cli.ts:213-224
Finish ==
  /\ pc = "loop"
  /\ ~LoopCondition
  /\ currentIteration' =
       IF processQueue # <<>> THEN currentIteration + 1 ELSE currentIteration
  /\ output' = [output EXCEPT !.readFiles = uniqueByPath(@),
                              !.writeFiles = uniqueByPath(@),
                              !.executeFiles = uniqueByPath(@)]
  /\ report' = [written |-> TRUE,
                analysisResult |-> output',
                dependencies |-> fileDependencies,
                entryPoints |-> [i \in 1..Len(entryPoints) |->
                                   entryPoints[i].path]]
  /\ pc' = "done"
  /\ UNCHANGED <<entryPoints, fileTypes, processQueue, fileDependencies,
                 processedFiles, inFlight, log>>
  /\ UNCHANGED mapVars
  /\ UNCHANGED treeVars

Next ==
  \/ SkipDuplicate
  \/ SkipBinary
  \/ AnalyzeStart
  \/ AnalyzeReturn
  \/ AnalyzeReadError
  \/ AnalyzeUndefined
  \/ AnalyzeThrow
  \/ Finish

Spec == Init /\ [][Next]_vars

TypeOK ==
  /\ pc \in {"loop", "analyzing", "done", "exit1"}
  /\ currentIteration \in 0..(MAX_ITERATIONS + 1)

----------------------------------------------------------------------------
(* Path utilities (src/core/pathUtils.ts) *)

LowerCase == <<"a", "b", "c", "d", "e", "f", "g", "h", "i", "j", "k", "l",
               "m", "n", "o", "p", "q", "r", "s", "t", "u", "v", "w", "x",
               "y", "z">>
UpperCase == <<"A", "B", "C", "D", "E", "F", "G", "H", "I", "J", "K", "L",
               "M", "N", "O", "P", "Q", "R", "S", "T", "U", "V", "W", "X",
               "Y", "Z">>

IsLetter(c) == \E i \in 1..26 : c = LowerCase[i] \/ c = UpperCase[i]

toLowerCase(c) ==
  IF \E i \in 1..26 : c = UpperCase[i]
  THEN LowerCase[CHOOSE i \in 1..26 : c = UpperCase[i]]
  ELSE c

toUpperCase(c) ==
  IF \E i \in 1..26 : c = LowerCase[i]
  THEN UpperCase[CHOOSE i \in 1..26 : c = LowerCase[i]]
  ELSE c

\* /^[A-Za-z]:/
HasDrivePrefix(s) == Len(s) >= 2 /\ IsLetter(s[1]) /\ s[2] = ":"

\* duplicate slashes stay
CollapseSlashesKeeping(s) == s

\* replace(/\/+/g, "/")
RECURSIVE CollapseSlashes(_)
CollapseSlashes(s) ==
  IF Len(s) < 2 THEN s
  ELSE IF s[1] = "/" /\ s[2] = "/" THEN CollapseSlashes(Tail(s))
  ELSE <<s[1]>> \o CollapseSlashes(Tail(s))

\* a trailing slash is always stripped
toUnixPathStripping(inputPath) ==
  IF inputPath = <<>> THEN <<"/">>
  ELSE
    LET n0 == ReplaceAll(inputPath, "\\", "/")
        n1 == IF HasDrivePrefix(n0)
              THEN <<"/", toLowerCase(n0[1])>> \o Slice(n0, 2)
              ELSE IF StartsWith(n0, <<".", "/">>)
              THEN LET t == Slice(n0, 1)
                   IN IF ~StartsWith(t, <<"/">>) THEN <<"/">> \o t ELSE t
              ELSE IF ~StartsWith(n0, <<"/">>) THEN <<"/">> \o n0
              ELSE n0
        n2 == CollapseSlashes(n1)
    IN IF Len(n2) > 1 /\ EndsWith(n2, <<"/">>)
       THEN SubSeq(n2, 1, Len(n2) - 1)
       ELSE n2

toUnixPath(inputPath) ==
  IF inputPath = <<>> THEN <<"/">>
  ELSE
    LET n0 == ReplaceAll(inputPath, "\\", "/")
        n1 == IF HasDrivePrefix(n0)
              THEN <<"/", toLowerCase(n0[1])>> \o Slice(n0, 2)
              ELSE IF StartsWith(n0, <<".", "/">>)
              THEN LET t == Slice(n0, 1)
                   IN IF ~StartsWith(t, <<"/">>) THEN <<"/">> \o t ELSE t
              ELSE IF ~StartsWith(n0, <<"/">>) THEN <<"/">> \o n0
              ELSE n0
        n2 == CollapseSlashes(n1)
        hadTrailingSlash ==
          EndsWith(inputPath, <<"/">>) \/ EndsWith(inputPath, <<"\\">>)
    IN IF Len(n2) > 1 /\ EndsWith(n2, <<"/">>) /\ ~hadTrailingSlash
       THEN SubSeq(n2, 1, Len(n2) - 1)
       ELSE n2

isUnixPath(inputPath) ==
  /\ StartsWith(inputPath, <<"/">>)
  /\ ~Includes(inputPath, "\\")
  /\ ~HasDrivePrefix(inputPath)

isWindowsPath(inputPath) ==
  \/ HasDrivePrefix(inputPath)
  \/ Includes(inputPath, "\\")
  \/ StartsWith(inputPath, <<"\\", "\\">>)

\* /^\/[a-z]\//
HasUnixDrive(s) ==
  /\ Len(s) >= 3
  /\ s[1] = "/"
  /\ \E i \in 1..26 : s[2] = LowerCase[i]
  /\ s[3] = "/"

\* one character too many is cut after the drive letter
fromUnixPathCutting(plat, unixPathArg) ==
  IF unixPathArg = <<>> THEN <<".">>
  ELSE IF plat # "win32" THEN unixPathArg
  ELSE IF HasDrivePrefix(unixPathArg)
          \/ StartsWith(unixPathArg, <<"\\", "\\">>) THEN unixPathArg
  ELSE IF HasUnixDrive(unixPathArg)
       THEN <<toUpperCase(unixPathArg[2]), ":">>
              \o ReplaceAll(Slice(unixPathArg, 3), "/", "\\")
  ELSE LET windowsPath == ReplaceAll(unixPathArg, "/", "\\")
       IN IF StartsWith(windowsPath, <<"\\">>) THEN <<".">> \o windowsPath
          ELSE windowsPath

fromUnixPath(plat, unixPathArg) ==
  IF unixPathArg = <<>> THEN <<".">>
  ELSE IF plat # "win32" THEN unixPathArg
  ELSE IF HasDrivePrefix(unixPathArg)
          \/ StartsWith(unixPathArg, <<"\\", "\\">>) THEN unixPathArg
  ELSE IF HasUnixDrive(unixPathArg)
       THEN <<toUpperCase(unixPathArg[2]), ":">>
              \o ReplaceAll(Slice(unixPathArg, 2), "/", "\\")
  ELSE LET windowsPath == ReplaceAll(unixPathArg, "/", "\\")
       IN IF StartsWith(windowsPath, <<"\\">>) THEN <<".">> \o windowsPath
          ELSE windowsPath

----------------------------------------------------------------------------
(* PathMapper (unnamed/part_001 and src/core/PathMapper.ts) *)

\* backslashes are left alone
normalizePathKeeping(inputPath) == inputPath

normalizePath(inputPath) == ReplaceAll(inputPath, "\\", "/")

\* a plain character prefix is enough
matchesRulePrefix(unixInput, unixFrom) == StartsWith(unixInput, unixFrom)

\* the test of the loop body of map, unnamed/part_001:46-47
matchesRule(unixInput, unixFrom) ==
  unixInput = unixFrom \/ StartsWith(unixInput, unixFrom \o <<"/">>)

\* the body of the if, unnamed/part_001:49-73
applyRule(mapping, unixInput) ==
  LET relativePart == Slice(unixInput, Len(mapping.from))
  IN IF isWindowsPath(mapping.to)
     THEN ReplaceAll(normalizePath(mapping.to) \o relativePart, "/", "\\")
     ELSE mapping.to \o relativePart

\* the loop keeps going and the last matching rule wins
RECURSIVE lastMatch(_, _, _)
lastMatch(rules, unixInput, i) ==
  IF i > Len(rules) THEN 0
  ELSE LET later == lastMatch(rules, unixInput, i + 1)
       IN IF later # 0 THEN later
          ELSE IF matchesRule(unixInput, rules[i].from) THEN i
          ELSE 0

\* the rule the for loop of map stops at: 0 when it runs to the end
RECURSIVE firstMatch(_, _, _)
firstMatch(rules, unixInput, i) ==
  IF i > Len(rules) THEN 0
  ELSE IF matchesRule(unixInput, rules[i].from) THEN i
  ELSE firstMatch(rules, unixInput, i + 1)

\* an unmatched input comes back in canonical form
mapReturningCanonical(rules, input) ==
  LET unixInput == toUnixPath(input)
      i == firstMatch(rules, unixInput, 1)
  IN IF i = 0 THEN unixInput ELSE applyRule(rules[i], unixInput)

\* PathMapper.map, unnamed/part_001:36-79
map(rules, input) ==
  LET unixInput == toUnixPath(input)
      i == firstMatch(rules, unixInput, 1)
  IN IF i = 0 THEN input ELSE applyRule(rules[i], unixInput)

pathSep(plat) == IF plat = "win32" THEN "\\" ELSE "/"

\* path.isAbsolute of the platform
pathIsAbsolute(plat, input) ==
  IF plat = "win32"
  THEN \/ Len(input) >= 1 /\ input[1] \in {"/", "\\"}
       \/ Len(input) >= 3 /\ HasDrivePrefix(input) /\ input[3] \in {"/", "\\"}
  ELSE StartsWith(input, <<"/">>)

isWindowsAbsolute(inputPath) ==
  \/ Len(inputPath) >= 3 /\ HasDrivePrefix(inputPath)
       /\ inputPath[3] \in {"/", "\\"}
  \/ StartsWith(inputPath, <<"\\", "\\">>)

\* every relative input gets the prefix
makeRelativeAlways(plat, input) ==
  IF pathIsAbsolute(plat, input) THEN input
  ELSE <<".", "/">> \o input

makeRelative(plat, input) ==
  IF pathIsAbsolute(plat, input) THEN input
  ELSE IF ~StartsWith(input, <<".", "/">>)
          /\ ~StartsWith(input, <<".", ".", "/">>)
       THEN <<".", "/">> \o input
       ELSE input

\* the rule the for loop of map stops at, src/core/PathMapper.ts:48-55
RECURSIVE firstMatchTs(_, _, _)
firstMatchTs(rules, normalizedInput, i) ==
  IF i > Len(rules) THEN 0
  ELSE IF matchesRule(normalizedInput, normalizePath(rules[i].from)) THEN i
  ELSE firstMatchTs(rules, normalizedInput, i + 1)

\* src/core/PathMapper.ts:57-65
applyRuleTs(plat, mapping, normalizedInput) ==
  LET relativePart == Slice(normalizedInput, Len(normalizePath(mapping.from)))
      mappedPath == normalizePath(mapping.to) \o relativePart
  IN ReplaceAll(mappedPath, "/", pathSep(plat))

\* PathMapper.map, src/core/PathMapper.ts:44-82
mapTs(plat, rules, input) ==
  LET normalizedInput == normalizePath(input)
      i == firstMatchTs(rules, normalizedInput, 1)
  IN IF i # 0 THEN applyRuleTs(plat, rules[i], normalizedInput)
     ELSE IF StartsWith(input, <<"/">>) THEN input
     ELSE IF isWindowsAbsolute(input) \/ pathIsAbsolute(plat, input)
          THEN input
     ELSE makeRelative(plat, input)

----------------------------------------------------------------------------
(* Inputs of PathMapper.map *)

MaxRules == 2       \* rules per PathMapper
MaxTokens == 4      \* tokens per input path

Rule(from, to) == [from |-> from, to |-> to]

RuleSet ==
  { Rule(<<"/", "a">>, <<".", "/", "1">>),
    Rule(<<"/", "a", "b">>, <<".", "/", "2">>),
    Rule(<<"/", "a", "/", "d">>, <<".", "/", "3">>),
    Rule(<<"/", "a">>, <<"C", ":", "\\", "w">>),
    Rule(<<"/", "a", "/">>, <<".", "/", "5">>),
    Rule(<<"C", ":", "\\", "a">>, <<".", "\\", "4">>) }

ExampleRules ==
  << Rule(<<"/", "a", "p", "p">>, <<".", "/", "a", "1">>),
     Rule(<<"/", "a", "p", "p", "/", "d", "a", "t", "a">>,
          <<".", "/", "a", "2">>) >>

ExampleInput == <<"/", "a", "p", "p", "/", "d", "a", "t", "a", "/", "f">>

ExampleOutput == <<".", "/", "a", "1", "/", "d", "a", "t", "a", "/", "f">>

RuleLists == SeqsUpTo(RuleSet, MaxRules) \cup {ExampleRules}

Tokens == { <<"/">>, <<"\\">>, <<"a">>, <<"/", "d">>, <<"b">>,
            <<"C", ":">>, <<".">> }

InputPaths ==
  {Flatten(ts) : ts \in SeqsUpTo(Tokens, MaxTokens)} \cup {ExampleInput}

Platforms == {"posix", "win32"}

InitMap ==
  /\ platform \in Platforms
  /\ mappings \in RuleLists
  /\ mapInput \in InputPaths
  /\ mapState = "config"
  /\ mapped = <<>>
  /\ mappedTs = <<>>
  /\ constructedBy = "none"
  /\ pathState = "unused"
  /\ pathInput = <<>>
  /\ unixPath = <<>>
  /\ platformPath = <<>>
  /\ roundTrip = <<>>
  /\ graph = <<>>
  /\ selectedPaths = NoSelection
  /\ treeState = "unused"
  /\ stack = <<>>
  /\ lines = <<>>
  /\ entryPoints = <<>>
  /\ fileTypes = <<>>
  /\ processQueue = <<>>
  /\ currentIteration = 0
  /\ output = EmptyResult
  /\ fileDependencies = <<>>
  /\ processedFiles = {}
  /\ pc = "unused"
  /\ inFlight = Unit(<<>>, <<>>, <<>>)
  /\ report = NoReport
  /\ log = <<>>

\* new PathMapper(mappings), unnamed/part_001:7
ConstructorCall ==
  /\ mapState = "config"
  /\ mapState' = "input"
  /\ constructedBy' = "constructor"
  /\ UNCHANGED <<platform, mappings, mapInput, mapped, mappedTs, pathState,
                 pathInput, unixPath, platformPath, roundTrip>>
  /\ UNCHANGED loopVars
  /\ UNCHANGED treeVars

\* the validation loop of fromConfig, unnamed/part_001:15-23
fromConfigThrows(rules) ==
  \E i \in 1..Len(rules) : isWindowsPath(rules[i].from)

\* PathMapper.fromConfig(), unnamed/part_001:9-26
FromConfigCall ==
  /\ mapState = "config"
  /\ mapState' = IF fromConfigThrows(mappings) THEN "rejected" ELSE "input"
  /\ constructedBy' = "fromConfig"
  /\ UNCHANGED <<platform, mappings, mapInput, mapped, mappedTs, pathState,
                 pathInput, unixPath, platformPath, roundTrip>>
  /\ UNCHANGED loopVars
  /\ UNCHANGED treeVars

MapCall ==
  /\ mapState = "input"
  /\ mapped' = map(mappings, mapInput)
  /\ mappedTs' = mapTs(platform, mappings, mapInput)
  /\ mapState' = "mapped"
  /\ UNCHANGED <<platform, mappings, mapInput, constructedBy, pathState,
                 pathInput, unixPath, platformPath, roundTrip>>
  /\ UNCHANGED loopVars
  /\ UNCHANGED treeVars

NextMap ==
  \/ ConstructorCall
  \/ FromConfigCall
  \/ MapCall

SpecMap == InitMap /\ [][NextMap]_vars

----------------------------------------------------------------------------
(* Inputs and calls of the path utilities *)

MaxPathLen == 5     \* characters per input of toUnixPath

PathAlphabet == {"/", "\\", "a", "c", "C", ":", "."}

PathInputs == SeqsUpTo(PathAlphabet, MaxPathLen)

InitPath ==
  /\ platform \in Platforms
  /\ pathInput \in PathInputs
  /\ pathState = "input"
  /\ unixPath = <<>>
  /\ platformPath = <<>>
  /\ roundTrip = <<>>
  /\ graph = <<>>
  /\ selectedPaths = NoSelection
  /\ treeState = "unused"
  /\ stack = <<>>
  /\ lines = <<>>
  /\ mappings = <<>>
  /\ mapInput = <<>>
  /\ mapState = "unused"
  /\ mapped = <<>>
  /\ mappedTs = <<>>
  /\ constructedBy = "none"
  /\ entryPoints = <<>>
  /\ fileTypes = <<>>
  /\ processQueue = <<>>
  /\ currentIteration = 0
  /\ output = EmptyResult
  /\ fileDependencies = <<>>
  /\ processedFiles = {}
  /\ pc = "unused"
  /\ inFlight = Unit(<<>>, <<>>, <<>>)
  /\ report = NoReport
  /\ log = <<>>

\* toUnixPath(pathInput)
ToUnixPathCall ==
  /\ pathState = "input"
  /\ unixPath' = toUnixPath(pathInput)
  /\ pathState' = "unix"
  /\ UNCHANGED <<platform, mappings, mapInput, mapState, mapped, mappedTs,
                 constructedBy, pathInput, platformPath, roundTrip>>
  /\ UNCHANGED loopVars
  /\ UNCHANGED treeVars

\* fromUnixPath(unixPath)
FromUnixPathCall ==
  /\ pathState = "unix"
  /\ platformPath' = fromUnixPath(platform, unixPath)
  /\ pathState' = "platform"
  /\ UNCHANGED <<platform, mappings, mapInput, mapState, mapped, mappedTs,
                 constructedBy, pathInput, unixPath, roundTrip>>
  /\ UNCHANGED loopVars
  /\ UNCHANGED treeVars

\* toUnixPath(platformPath)
ToUnixPathAgainCall ==
  /\ pathState = "platform"
  /\ roundTrip' = toUnixPath(platformPath)
  /\ pathState' = "back"
  /\ UNCHANGED <<platform, mappings, mapInput, mapState, mapped, mappedTs,
                 constructedBy, pathInput, unixPath, platformPath>>
  /\ UNCHANGED loopVars
  /\ UNCHANGED treeVars

NextPath ==
  \/ ToUnixPathCall
  \/ FromUnixPathCall
  \/ ToUnixPathAgainCall

SpecPath == InitPath /\ [][NextPath]_vars

----------------------------------------------------------------------------
(* visualizeDependencyGraph (output/visualizeDependencies, the copy in      *)
(* src/core/PathMapper.test.ts:242-352)                                     *)

MaxDeps == 2        \* edges per node of the graph
MaxRoots == 2       \* entries of selectedPaths
MaxDepth == 5       \* indent at which a call of buildTree is not run anymore

\* primary weight of a character in the collation of localeCompare:
\* letters by alphabet position whatever their case, other characters first
CollationRank(c) ==
  IF IsLetter(c) THEN CHOOSE i \in 1..26 : toLowerCase(c) = LowerCase[i]
  ELSE 0

RECURSIVE ComparePrimary(_, _, _)
ComparePrimary(a, b, i) ==
  IF i > Len(a) /\ i > Len(b) THEN 0
  ELSE IF i > Len(a) THEN -1
  ELSE IF i > Len(b) THEN 1
  ELSE IF CollationRank(a[i]) < CollationRank(b[i]) THEN -1
  ELSE IF CollationRank(a[i]) > CollationRank(b[i]) THEN 1
  ELSE ComparePrimary(a, b, i + 1)

\* strings with equal primary weights: lower case before upper case at the
\* first character that differs
RECURSIVE CompareCase(_, _, _)
CompareCase(a, b, i) ==
  IF i > Len(a) THEN 0
  ELSE IF a[i] = b[i] THEN CompareCase(a, b, i + 1)
  ELSE IF a[i] = toLowerCase(a[i]) THEN -1
  ELSE 1

\* String.prototype.localeCompare
localeCompare(a, b) ==
  LET primary == ComparePrimary(a, b, 1)
  IN IF primary # 0 THEN primary ELSE CompareCase(a, b, 1)

\* array.sort((a, b) => key(a).localeCompare(key(b))), keys[i] the key of
\* array[i]: stable, so an element goes behind the elements that compare
\* lower and the equal ones that came before it
sort(array, keys) ==
  LET rank(i) ==
        Cardinality({j \in 1..Len(array) :
                       \/ localeCompare(keys[j], keys[i]) < 0
                       \/ localeCompare(keys[j], keys[i]) = 0 /\ j < i}) + 1
  IN [position \in 1..Len(array) |->
        array[CHOOSE i \in 1..Len(array) : rank(i) = position]]

\* PathMapper.test.ts:249-258
getIcon(action, fileType) ==
  IF action = "read" THEN "[R]"
  ELSE IF action = "write" THEN "[W]"
  ELSE IF fileType \notin {Undefined, ""} THEN "[B]"
  ELSE "[E]"

Branch == <<"|", "_", "_", " ">>
Blank4 == <<" ", " ", " ", " ">>

\* the prefix handed to a child, PathMapper.test.ts:306-320
newPrefix(indent, prefix, isLastDep) ==
  IF indent = 0 THEN Branch
  ELSE LET parentPrefix ==
             SubSeq(prefix, 1, IF Len(prefix) > 4 THEN Len(prefix) - 4 ELSE 0)
       IN IF EndsWith(parentPrefix, Branch)
          THEN SubSeq(parentPrefix, 1, Len(parentPrefix) - 4) \o Blank4
                 \o (IF isLastDep THEN Branch ELSE Branch)
          ELSE parentPrefix \o Blank4
                 \o (IF isLastDep THEN Branch ELSE Branch)

TreeNodes == {<<"a">>, <<"B">>, <<"c">>}

\* one edge per target: a script, a file with a detected type, a file read
EdgeChoices ==
  { Edge(<<"a">>, "execute", Undefined),
    Edge(<<"B">>, "execute", "elf"),
    Edge(<<"c">>, "read", Undefined) }

\* edge lists of a node: no target twice
DepLists ==
  {deps \in SeqsUpTo(EdgeChoices, MaxDeps) :
     \A i, j \in 1..Len(deps) : deps[i] = deps[j] => i = j}

Graphs == UNION {[keys -> DepLists] : keys \in SUBSET TreeNodes}

RootLists ==
  {NoSelection} \cup {Selection(paths) : paths \in SeqsUpTo(TreeNodes, MaxRoots)}

\* the orders Array.from(keys()) can list a key set in
KeyOrders(keys) ==
  {order \in [1..Cardinality(keys) -> keys] :
     \A i, j \in 1..Cardinality(keys) : order[i] = order[j] => i = j}

\* a pending step: a top-level path, a call of buildTree or the empty line
\* between trees; tree, chain and lasts record where a call came from
Item(kind, path, action, fileType, indent, prefix, isLast, ancestorPaths, tree, chain, lasts) ==
  [kind |-> kind, path |-> path, action |-> action, fileType |-> fileType,
   indent |-> indent, prefix |-> prefix, isLast |-> isLast,
   ancestorPaths |-> ancestorPaths, tree |-> tree, chain |-> chain,
   lasts |-> lasts]

RootItem(path, index) ==
  Item("root", path, "execute", Undefined, 0, <<>>, TRUE, {}, index, <<>>,
       <<>>)

BlankItem(index) ==
  Item("blank", <<>>, "execute", Undefined, 0, <<>>, TRUE, {}, index, <<>>,
       <<>>)

\* buildTree(path, "execute", undefined), PathMapper.test.ts:343
RootCall(path, index) ==
  Item("call", path, "execute", Undefined, 0, <<>>, TRUE, {}, index, <<>>,
       <<>>)

\* a pushed line: prefix, icon, path and marker make up its text
Line(call, circular) ==
  [blank |-> FALSE,
   prefix |-> IF call.indent = 0 /\ ~circular THEN <<>> ELSE call.prefix,
   icon |-> getIcon(call.action, call.fileType),
   path |-> call.path, circular |-> circular, indent |-> call.indent,
   tree |-> call.tree, chain |-> call.chain, lasts |-> call.lasts]

EmptyLine(index) ==
  [blank |-> TRUE, prefix |-> <<>>, icon |-> "", path |-> <<>>,
   circular |-> FALSE, indent |-> 0, tree |-> index, chain |-> <<>>,
   lasts |-> <<>>]

\* the marker is put on a path that was rendered anywhere before
isCircularSeenBefore(call) ==
  \E k \in 1..Len(lines) : ~lines[k].blank /\ lines[k].path = call.path

\* ancestorPaths.has(path), PathMapper.test.ts:279
isCircular(call) == call.path \in call.ancestorPaths

\* the path of the node is not added
newAncestorPathsUnchanged(call) == call.ancestorPaths

\* PathMapper.test.ts:298-299
newAncestorPaths(call) == call.ancestorPaths \cup {call.path}

\* the keys of depsClone.sort, PathMapper.test.ts:303
depPaths(deps) == [index \in 1..Len(deps) |-> deps[index].path]

\* the calls of the forEach of PathMapper.test.ts:292-331, in call order
childCalls(call) ==
  IF call.path \notin DOMAIN graph THEN <<>>
  ELSE LET depsClone == sort(graph[call.path], depPaths(graph[call.path]))
       IN [index \in 1..Len(depsClone) |->
             LET dep == depsClone[index]
                 isLastDep == index = Len(depsClone)
             IN Item("call", dep.path, dep.action, dep.fileType,
                     call.indent + 1,
                     newPrefix(call.indent, call.prefix, isLastDep),
                     isLastDep, newAncestorPaths(call), call.tree,
                     Append(call.chain, call.path),
                     Append(call.lasts, isLastDep))]

InitTree ==
  /\ graph \in Graphs
  /\ selectedPaths \in RootLists
  /\ treeState = "input"
  /\ stack = <<>>
  /\ lines = <<>>
  /\ platform = "posix"
  /\ mappings = <<>>
  /\ mapInput = <<>>
  /\ mapState = "unused"
  /\ mapped = <<>>
  /\ mappedTs = <<>>
  /\ constructedBy = "none"
  /\ pathState = "unused"
  /\ pathInput = <<>>
  /\ unixPath = <<>>
  /\ platformPath = <<>>
  /\ roundTrip = <<>>
  /\ entryPoints = <<>>
  /\ fileTypes = <<>>
  /\ processQueue = <<>>
  /\ currentIteration = 0
  /\ output = EmptyResult
  /\ fileDependencies = <<>>
  /\ processedFiles = {}
  /\ pc = "unused"
  /\ inFlight = Unit(<<>>, <<>>, <<>>)
  /\ report = NoReport
  /\ log = <<>>

\* PathMapper.test.ts:335-338
SortTopLevel ==
  /\ treeState = "input"
  /\ \E keys \in KeyOrders(DOMAIN graph) :
       LET paths == IF selectedPaths.given THEN selectedPaths.paths ELSE keys
           topLevelPaths == sort(paths, paths)
       IN stack' = [index \in 1..Len(topLevelPaths) |->
                      RootItem(topLevelPaths[index], index)]
  /\ treeState' = "rendering"
  /\ UNCHANGED <<graph, selectedPaths, lines>>
  /\ UNCHANGED <<loopVars, mapVars>>

\* one round of the forEach of PathMapper.test.ts:341-349
TopLevelStep ==
  /\ treeState = "rendering"
  /\ stack # <<>>
  /\ Head(stack).kind = "root"
  /\ LET root == Head(stack)
         more == \E k \in 2..Len(stack) : stack[k].kind = "root"
     IN stack' =
          IF root.path \in DOMAIN graph
          THEN <<RootCall(root.path, root.tree)>>
                 \o (IF more THEN <<BlankItem(root.tree)>> ELSE <<>>)
                 \o Tail(stack)
          ELSE Tail(stack)
  /\ UNCHANGED <<graph, selectedPaths, treeState, lines>>
  /\ UNCHANGED <<loopVars, mapVars>>

\* one call of buildTree, PathMapper.test.ts:268-332
BuildTreeStep ==
  /\ treeState = "rendering"
  /\ stack # <<>>
  /\ Head(stack).kind = "call"
  /\ Head(stack).indent < MaxDepth
  /\ LET call == Head(stack)
     IN IF isCircular(call)
        THEN /\ lines' = Append(lines, Line(call, TRUE))
             /\ stack' = Tail(stack)
        ELSE /\ lines' = Append(lines, Line(call, FALSE))
             /\ stack' = childCalls(call) \o Tail(stack)
  /\ UNCHANGED <<graph, selectedPaths, treeState>>
  /\ UNCHANGED <<loopVars, mapVars>>

\* lines.push(""), PathMapper.test.ts:345-347
BlankLineStep ==
  /\ treeState = "rendering"
  /\ stack # <<>>
  /\ Head(stack).kind = "blank"
  /\ lines' = Append(lines, EmptyLine(Head(stack).tree))
  /\ stack' = Tail(stack)
  /\ UNCHANGED <<graph, selectedPaths, treeState>>
  /\ UNCHANGED <<loopVars, mapVars>>

\* return lines.join, PathMapper.test.ts:351
ReturnLines ==
  /\ treeState = "rendering"
  /\ stack = <<>>
  /\ treeState' = "done"
  /\ UNCHANGED <<graph, selectedPaths, stack, lines>>
  /\ UNCHANGED <<loopVars, mapVars>>

NextTree ==
  \/ SortTopLevel
  \/ TopLevelStep
  \/ BuildTreeStep
  \/ BlankLineStep
  \/ ReturnLines

SpecTree == InitTree /\ [][NextTree]_vars

\* the graphs whose edges were recorded in the order they are rendered in
OrderedGraphs ==
  {g \in Graphs : \A key \in DOMAIN g : g[key] = sort(g[key], depPaths(g[key]))}

\* every file of the graph is a root: no selectedPaths argument
InitTreeLive ==
  /\ InitTree
  /\ graph \in OrderedGraphs
  /\ selectedPaths = NoSelection

\* the call is synchronous: once started it runs on until it returns
SpecTreeLive == InitTreeLive /\ [][NextTree]_vars /\ WF_vars(NextTree)

----------------------------------------------------------------------------
(* Properties of the worklist loop *)

IsAnalyzeCall(e) == e.kind \in {"analyzing", "analyzed", "undefined", "threw"}

CallPath(e) == resolveUnixPath(e.params.pwd, e.params.filePath)

Analyzed == {i \in 1..Len(log) : log[i].kind = "analyzed"}

ExecPaths(e) ==
  {resolveUnixPath(e.result.executeFiles[k].pwd, e.result.executeFiles[k].path) :
     k \in 1..Len(e.result.executeFiles)}

\* C1: agent.analyzeFile is invoked at most once per canonical absolute
\* path resolveUnixPath(pwd, path); a dequeued unit whose canonical path is
\* already visited is discarded without an analyze call.
C1_AnalyzeOncePerPath ==
  /\ \A i, j \in 1..Len(log) :
       (i < j /\ IsAnalyzeCall(log[i]) /\ IsAnalyzeCall(log[j]))
         => CallPath(log[i]) # CallPath(log[j])
  /\ \A j \in 1..Len(log) :
       (\E i \in 1..(j - 1) : log[i].absolutePath = log[j].absolutePath)
         => ~IsAnalyzeCall(log[j])

\* a child analyzed once, found again as another unit through a second parent
C1_Witness ==
  \E c, p1, p2, d \in 1..Len(log) :
    /\ log[c].kind = "analyzed" /\ log[d].kind = "duplicate"
    /\ log[d].absolutePath = log[c].absolutePath
    /\ log[d].unit.pwd # log[c].unit.pwd
    /\ log[d].unit.path # log[c].unit.path
    /\ p1 # p2 /\ p1 \in Analyzed /\ p2 \in Analyzed
    /\ log[c].absolutePath \in ExecPaths(log[p1])
    /\ log[c].absolutePath \in ExecPaths(log[p2])

\* C2: the loop never performs more than MAX_ITERATIONS dequeues, and when
\* it ends with fewer dequeues the worklist is empty; with a worklist that
\* is never empty it ends after exactly MAX_ITERATIONS dequeues.
C2_IterationCap ==
  /\ Len(log) <= MAX_ITERATIONS
  /\ pc = "done" => (processQueue = <<>> \/ Len(log) = MAX_ITERATIONS)
  /\ (pc = "loop" /\ processQueue # <<>> /\ Len(log) < MAX_ITERATIONS)
       => LoopCondition

C2_Witness ==
  pc = "done" /\ processQueue # <<>> /\ Len(log) = MAX_ITERATIONS

ReportMarkedTruncated ==
  "truncated" \in DOMAIN report /\ report.truncated = TRUE

\* C3: when the loop ends at the iteration cap with a non-empty worklist,
\* the final report is marked truncated.
C3_TruncationMarked ==
  (pc = "done" /\ processQueue # <<>>) => ReportMarkedTruncated

\* C4: no outcome of a node's analysis (no record, a record with errors,
\* an exception) aborts the run.
C4_NodeFailureNeverAborts == pc # "exit1"

\* C5: a node whose analysis returned no record has an error entry in the
\* aggregate error list and an empty edge list.
C5_NoRecordGivesErrorEntry ==
  \A i \in 1..Len(log) :
    log[i].kind = "undefined" =>
      /\ \E k \in 1..Len(output.errors) :
           output.errors[k].path = log[i].unit.path
      /\ fileDependencies[log[i].absolutePath] = <<>>

FsType(absolutePath) ==
  IF absolutePath \in DOMAIN fileTypes THEN fileTypes[absolutePath]
  ELSE Undefined

C6_EdgesOfRecord(d, r) ==
  LET nr == Len(r.readFiles)
      nw == Len(r.writeFiles)
      nx == Len(r.executeFiles)
  IN /\ Len(d) = nr + nw + nx
     /\ \A k \in 1..nr :
          d[k] = [path |-> r.readFiles[k].path, action |-> "read",
                  fileType |-> Undefined]
     /\ \A k \in 1..nw :
          d[nr + k] = [path |-> r.writeFiles[k].path, action |-> "write",
                       fileType |-> Undefined]
     /\ \A k \in 1..nx :
          d[nr + nw + k] =
            [path |-> r.executeFiles[k].path, action |-> "execute",
             fileType |-> FsType(resolveUnixPath(r.executeFiles[k].pwd,
                                                 r.executeFiles[k].path))]

C6_EdgeListsExact ==
  \A i \in Analyzed :
    /\ log[i].absolutePath \in DOMAIN fileDependencies
    /\ C6_EdgesOfRecord(fileDependencies[log[i].absolutePath], log[i].result)

C6_EdgeListsKept ==
  \A k \in DOMAIN fileDependencies :
    k \in DOMAIN fileDependencies' /\ fileDependencies'[k] = fileDependencies[k]

\* C6: the edge list of an analyzed node is its record's read entries, then
\* its write entries, then its execute entries with the detected file type,
\* also for execute targets already visited; once written it never changes.
C6_EdgeListOfRecord == []C6_EdgeListsExact /\ [][C6_EdgeListsKept]_vars

\* a second parent keeps its execute edge to a child that is already visited
C6_Witness ==
  \E i, j \in Analyzed :
    /\ i < j
    /\ \E k \in 1..Len(log[j].result.executeFiles) :
         LET x == log[j].result.executeFiles[k]
         IN /\ resolveUnixPath(x.pwd, x.path) \in ExecPaths(log[i])
            /\ \E c \in 1..(j - 1) :
                 log[c].absolutePath = resolveUnixPath(x.pwd, x.path)
            /\ \E n \in 1..Len(fileDependencies[log[j].absolutePath]) :
                 LET d == fileDependencies[log[j].absolutePath][n]
                 IN d.path = x.path /\ d.action = "execute"
    /\ Len(log[j].result.readFiles) > 0

C7_BinaryUnit(i) ==
  /\ log[i].absolutePath \in processedFiles
  /\ \A j \in 1..Len(log) : IsAnalyzeCall(log[j]) =>
       CallPath(log[j]) # log[i].absolutePath
  /\ log[i].absolutePath \notin DOMAIN fileDependencies
  /\ \E j \in Analyzed :
       /\ j < i
       /\ \E n \in 1..Len(fileDependencies[log[j].absolutePath]) :
            LET d == fileDependencies[log[j].absolutePath][n]
            IN /\ d.action = "execute"
               /\ d.path = log[i].unit.path
               /\ d.fileType = log[i].unit.fileType

C7_BinaryNeverAnalyzed ==
  \A i \in 1..Len(log) :
    log[i].unit.fileType # Undefined =>
      /\ log[i].kind \in {"binary", "duplicate"}
      /\ log[i].kind = "binary" => C7_BinaryUnit(i)

C7_BinaryEnqueuesNothing ==
  (Len(log') = Len(log) + 1 /\ log'[Len(log')].kind = "binary")
    => processQueue' = Tail(processQueue)

UnitKey(u) == <<u.pwd, u.path, u.args>>

C8_Dequeued == [i \in 1..Len(log) |-> UnitKey(log[i].unit)]

C8_Waiting == [i \in 1..Len(processQueue) |-> UnitKey(processQueue[i])]

RECURSIVE C8_Discovered(_)
C8_Discovered(i) ==
  IF i > Len(log) THEN <<>>
  ELSE (IF log[i].kind = "analyzed"
        THEN [k \in 1..Len(log[i].result.executeFiles) |->
                UnitKey(log[i].result.executeFiles[k])]
        ELSE <<>>) \o C8_Discovered(i + 1)

\* C8: units are dequeued in the order they were enqueued: the entry points
\* in configured order, then the execute entries of each analyzed parent in
\* the order of the parents' dequeue and of each record's executeFiles.
C8_StrictFifo ==
  C8_Dequeued \o C8_Waiting =
    [i \in 1..Len(entryPoints) |-> UnitKey(entryPoints[i])]
      \o C8_Discovered(1)

C8_Witness ==
  /\ pc = "done"
  /\ processQueue = <<>>
  /\ Len(entryPoints) = 2
  /\ \E i, j \in Analyzed :
       /\ i < j
       /\ Len(log[i].result.executeFiles) = 2
       /\ Len(log[j].result.executeFiles) = 2
       /\ log[i].result.executeFiles # log[j].result.executeFiles

RECURSIVE C9_Reported(_, _)
C9_Reported(field, i) ==
  IF i > Len(log) THEN <<>>
  ELSE (IF log[i].kind = "analyzed" THEN log[i].result[field] ELSE <<>>)
         \o C9_Reported(field, i + 1)

C9_FirstOccurrences(raw, out) ==
  LET first == {i \in 1..Len(raw) :
                  \A j \in 1..(i - 1) : raw[j].path # raw[i].path}
  IN /\ \A a, b \in 1..Len(out) : a # b => out[a].path # out[b].path
     /\ {raw[i].path : i \in 1..Len(raw)} = {out[k].path : k \in 1..Len(out)}
     /\ Len(out) = Cardinality(first)
     /\ \A i \in first :
          LET k == Cardinality({j \in first : j <= i})
          IN /\ out[k].path = raw[i].path
             /\ out[k].description = raw[i].description

\* C9: after a run each of the aggregate read, write and execute lists has
\* no two entries with the same path and is the subsequence of first
\* occurrences of everything the analyzed nodes reported, in order.
C9_AggregatesDeduplicated ==
  pc = "done" =>
    /\ C9_FirstOccurrences(C9_Reported("readFiles", 1), output.readFiles)
    /\ C9_FirstOccurrences(C9_Reported("writeFiles", 1), output.writeFiles)
    /\ C9_FirstOccurrences(C9_Reported("executeFiles", 1),
                           output.executeFiles)
    /\ report.analysisResult = output

C9_Witness ==
  /\ pc = "done"
  /\ Len(output.readFiles) = 2
  /\ Len(C9_Reported("readFiles", 1)) = 4
  /\ Len(output.executeFiles) < Len(C9_Reported("executeFiles", 1))
  /\ \E i, j \in 1..4 :
       /\ i < j
       /\ C9_Reported("readFiles", 1)[i].path = C9_Reported("readFiles", 1)[j].path
       /\ C9_Reported("readFiles", 1)[i].description
            # C9_Reported("readFiles", 1)[j].description

----------------------------------------------------------------------------
(* Properties of PathMapper.map *)

C10_Matching(canonical, from(_)) ==
  {i \in 1..Len(mappings) : matchesRule(canonical, from(mappings[i]))}

C10_Min(S) == CHOOSE i \in S : \A j \in S : i <= j

C10_From(m) == m.from

C10_FromTs(m) == normalizePath(m.from)

\* C10: PathMapper.map computes its result from the first rule in list
\* order that matches, also when a later rule has a longer from prefix.
C10_FirstMatchWins ==
  mapState = "mapped" =>
    /\ LET M == C10_Matching(toUnixPath(mapInput), C10_From)
       IN M # {} => mapped = map(<<mappings[C10_Min(M)]>>, mapInput)
    /\ LET M == C10_Matching(normalizePath(mapInput), C10_FromTs)
       IN M # {} =>
            mappedTs = mapTs(platform, <<mappings[C10_Min(M)]>>, mapInput)
    /\ (mappings = ExampleRules /\ mapInput = ExampleInput) =>
         /\ mapped = ExampleOutput
         /\ platform = "posix" => mappedTs = ExampleOutput

C10_Witness ==
  /\ mapState = "mapped"
  /\ Len(mappings) = 2
  /\ C10_Matching(toUnixPath(mapInput), C10_From) = {1, 2}
  /\ Len(mappings[2].from) > Len(mappings[1].from)
  /\ mapped = map(<<mappings[1]>>, mapInput)
  /\ mapped # map(<<mappings[2]>>, mapInput)
  /\ mappedTs # mapTs(platform, <<mappings[2]>>, mapInput)

----------------------------------------------------------------------------
(* PathMapper.map: unmatched inputs, segment boundaries, trailing separators *)

\* p is q, or p continues q with a "/" right after it
SegmentPrefix(p, q) ==
  /\ Len(p) >= Len(q)
  /\ SubSeq(p, 1, Len(q)) = q
  /\ Len(p) > Len(q) => p[Len(q) + 1] = "/"

Slashed(p) == [k \in 1..Len(p) |-> IF p[k] = "\\" THEN "/" ELSE p[k]]

\* the rules an input selects in unnamed/part_001 and in src/core/PathMapper.ts
Hits == {i \in 1..Len(mappings) :
           SegmentPrefix(toUnixPath(mapInput), mappings[i].from)}
HitsTs == {i \in 1..Len(mappings) :
             SegmentPrefix(Slashed(mapInput), Slashed(mappings[i].from))}

C12_Absolute ==
  \/ Len(mapInput) >= 1 /\ mapInput[1] = "/"
  \/ Len(mapInput) >= 3 /\ IsLetter(mapInput[1]) /\ mapInput[2] = ":"
       /\ mapInput[3] \in {"/", "\\"}
  \/ Len(mapInput) >= 2 /\ mapInput[1] = "\\" /\ mapInput[2] = "\\"
  \/ platform = "win32" /\ Len(mapInput) >= 1 /\ mapInput[1] = "\\"

C12_DotPrefixed ==
  \/ Len(mapInput) >= 2 /\ SubSeq(mapInput, 1, 2) = <<".", "/">>
  \/ Len(mapInput) >= 3 /\ SubSeq(mapInput, 1, 3) = <<".", ".", "/">>

C13_BoundaryRules ==
  SelectSeq(mappings,
            LAMBDA r : SegmentPrefix(toUnixPath(mapInput), r.from))
C13_BoundaryRulesTs ==
  SelectSeq(mappings,
            LAMBDA r : SegmentPrefix(Slashed(mapInput), Slashed(r.from)))

\* C13: a rule matches only at a path-segment boundary: the result of map is
\* the one obtained from the rules whose from equals the canonical input or
\* is followed by "/" in it; a rule sharing only a character prefix has no effect
C13_SegmentBoundary ==
  mapState = "mapped" =>
    /\ mapped = map(C13_BoundaryRules, mapInput)
    /\ mappedTs = mapTs(platform, C13_BoundaryRulesTs, mapInput)

C13_Witness ==
  /\ mapState = "mapped"
  /\ mapInput = <<"/", "a", "b">>
  /\ mappings = <<Rule(<<"/", "a">>, <<".", "/", "1">>)>>
  /\ mapped = mapInput
  /\ mappedTs = mapInput

IsSeparator(c) == c \in {"/", "\\"}
EndsWithSeparator(p) == Len(p) >= 1 /\ IsSeparator(p[Len(p)])

\* C14: for an input that matches a rule whose to does not end with a
\* separator, the mapped output ends with a separator exactly when the input
\* ended with one
C14_TrailingSeparatorKept ==
  mapState = "mapped" =>
    /\ (Hits # {} /\ ~EndsWithSeparator(mappings[C10_Min(Hits)].to)) =>
         (EndsWithSeparator(mapped) <=> EndsWithSeparator(mapInput))
    /\ (HitsTs # {} /\ ~EndsWithSeparator(mappings[C10_Min(HitsTs)].to)) =>
         (EndsWithSeparator(mappedTs) <=> EndsWithSeparator(mapInput))

----------------------------------------------------------------------------
(* PathMapper: construction and separator styles *)

C15_WindowsStyle(p) ==
  \/ Len(p) >= 2 /\ IsLetter(p[1]) /\ p[2] = ":"
  \/ \E k \in 1..Len(p) : p[k] = "\\"

\* C15: a mapper holding a rule whose from is written in Windows style never
\* comes into use, whichever way it was constructed
C15_WindowsFromRejected ==
  mapState \in {"input", "mapped"} =>
    \A i \in 1..Len(mappings) : ~C15_WindowsStyle(mappings[i].from)

\* C16: an input and the same input written with forward slashes select the
\* same rule of the mapper, or both select none, and a selected rule gives
\* both the same output
C16_SeparatorStyleIgnored ==
  mapState = "mapped" =>
    LET q == Slashed(mapInput)
    IN /\ firstMatch(mappings, toUnixPath(mapInput), 1)
            = firstMatch(mappings, toUnixPath(q), 1)
       /\ firstMatchTs(mappings, normalizePath(mapInput), 1)
            = firstMatchTs(mappings, normalizePath(q), 1)
       /\ Hits # {} => mapped = map(mappings, q)
       /\ HitsTs # {} => mappedTs = mapTs(platform, mappings, q)

C16_Witness ==
  /\ mapState = "mapped"
  /\ mapInput = <<"\\", "a", "\\", "b">>
  /\ Len(mappings) = 1
  /\ mappings[1] = Rule(<<"/", "a">>, <<".", "/", "1">>)
  /\ mapped = <<".", "/", "1", "/", "b">>
  /\ mappedTs = mapTs(platform, mappings, <<"/", "a", "/", "b">>)
  /\ mappedTs # mapInput

----------------------------------------------------------------------------
(* toUnixPath and fromUnixPath *)

\* C17: for every input, toUnixPath returns a string that begins with "/",
\* holds no backslash and holds no two consecutive "/"
C17_CanonicalShape ==
  pathState # "input" =>
    /\ Len(unixPath) >= 1
    /\ unixPath[1] = "/"
    /\ \A k \in 1..Len(unixPath) : unixPath[k] # "\\"
    /\ \A k \in 1..(Len(unixPath) - 1) :
         ~(unixPath[k] = "/" /\ unixPath[k + 1] = "/")

C17_Witness ==
  /\ pathState = "unix"
  /\ pathInput = <<"a", "\\", "/", "\\", "c">>
  /\ unixPath = <<"/", "a", "/", "c">>

C18_DrivePrefixed ==
  Len(pathInput) >= 2 /\ IsLetter(pathInput[1]) /\ pathInput[2] = ":"

\* C18: for an input starting with a drive-letter prefix, the result of
\* toUnixPath is "/" and the lowercase letter, or starts with "/", the
\* lowercase letter and "/"
C18_DriveIsSegment ==
  (pathState # "input" /\ C18_DrivePrefixed) =>
    LET letter == toLowerCase(pathInput[1])
    IN \/ unixPath = <<"/", letter>>
       \/ /\ Len(unixPath) >= 3
          /\ SubSeq(unixPath, 1, 3) = <<"/", letter, "/">>

\* C19: a result of toUnixPath other than the bare root ends with "/" exactly
\* when the input ended with "/" or "\", and then with a single "/"
C19_TrailingSeparator ==
  (pathState # "input" /\ unixPath # <<"/">>) =>
    /\ (unixPath[Len(unixPath)] = "/") <=> EndsWithSeparator(pathInput)
    /\ Len(unixPath) >= 2 =>
         ~(unixPath[Len(unixPath)] = "/" /\ unixPath[Len(unixPath) - 1] = "/")

C19_Witness ==
  /\ pathState = "unix"
  /\ pathInput = <<"C", ":", "\\", "a", "\\">>
  /\ unixPath = <<"/", "c", "/", "a", "/">>

\* C20: for a Windows-style input p, toUnixPath(fromUnixPath(toUnixPath(p)))
\* with fromUnixPath on win32 equals toUnixPath(p)
C20_RoundTripStable ==
  (pathState = "back" /\ platform = "win32" /\ C15_WindowsStyle(pathInput))
    => roundTrip = unixPath

C20_Witness ==
  /\ pathState = "back"
  /\ platform = "win32"
  /\ pathInput = <<"C", ":", "\\", "a">>
  /\ unixPath = <<"/", "c", "/", "a">>
  /\ platformPath = <<"C", ":", "\\", "a">>
  /\ roundTrip = unixPath

----------------------------------------------------------------------------
(* The worklist loop: roots of the report, visited set, iteration budget *)

EntryKey(i) == resolveUnixPath(entryPoints[i].pwd, entryPoints[i].path)

\* C24: every entry point that was analyzed is handed to the renderer under
\* the key the graph holds for it, the resolved absolute path
C24_RootsAreKeys ==
  pc = "done" =>
    \A i \in 1..Len(entryPoints) :
      EntryKey(i) \in DOMAIN report.dependencies
        => /\ report.entryPoints[i] = EntryKey(i)
           /\ report.entryPoints[i] \in DOMAIN report.dependencies

\* the units a step appends to the worklist
C25_Appended ==
  {processQueue'[k] : k \in (Len(processQueue) + 1)..Len(processQueue')}

\* C25 as stated: once a path is in the visited set, no unit resolving to
\* it is put on the worklist again
C25_NeverEnqueuedAgain ==
  [][Len(processQueue') > Len(processQueue) =>
       \A u \in C25_Appended :
         resolveUnixPath(u.pwd, u.path) \notin processedFiles]_vars

\* C25: once a path is in the visited set, a unit resolving to it is never
\* analyzed again: when it is dequeued it is dropped, and the visited set,
\* the graph, the aggregate and the worklist behind it stay as they are
C25_VisitedDroppedAtDequeue ==
  [][(pc = "loop" /\ Len(log') = Len(log) + 1
        /\ resolveUnixPath(Head(processQueue).pwd, Head(processQueue).path)
             \in processedFiles)
       => /\ log'[Len(log')].kind = "duplicate"
          /\ log'[Len(log')].unit = Head(processQueue)
          /\ processQueue' = Tail(processQueue)
          /\ processedFiles' = processedFiles
          /\ fileDependencies' = fileDependencies
          /\ output' = output
          /\ pc' = "loop"]_vars

\* a visited path reported again by a later node, enqueued and then dropped
C25_Witness ==
  \E i, j, k \in 1..Len(log) :
    /\ i <= j /\ j < k
    /\ log[j].kind = "analyzed"
    /\ log[i].absolutePath \in ExecPaths(log[j])
    /\ log[k].absolutePath = log[i].absolutePath
    /\ log[k].kind = "duplicate"
    /\ \A e \in 1..Len(entryPoints) : entryPoints[e] # log[k].unit

C26_Calls == {k \in 1..Len(log) : IsAnalyzeCall(log[k])}
C26_Skips == {k \in 1..Len(log) : log[k].kind \in {"duplicate", "binary"}}

\* C26: every dequeue, the skipped ones included, uses up one iteration of
\* the budget, so the analyze calls of a run are the dequeues minus the skips
C26_SkipsUseBudget ==
  /\ Len(log) = IF currentIteration > MAX_ITERATIONS THEN MAX_ITERATIONS
                ELSE currentIteration
  /\ Cardinality(C26_Calls) = Len(log) - Cardinality(C26_Skips)
  /\ Cardinality(C26_Calls) <= MAX_ITERATIONS - Cardinality(C26_Skips)

\* a run that reaches the cap with fewer analyze calls than iterations
C26_Witness ==
  /\ pc = "done"
  /\ Len(log) = MAX_ITERATIONS
  /\ C26_Skips # {}
  /\ Cardinality(C26_Calls) < MAX_ITERATIONS

\* C29: when the loop ends with an empty worklist, the path of every execute
\* entry of every analyzed node is in the visited set: it was analyzed or
\* skipped as binary
C29_ClosedUnderExecute ==
  (pc = "done" /\ processQueue = <<>>) =>
    \A k \in Analyzed : \A p \in ExecPaths(log[k]) :
      /\ p \in processedFiles
      /\ \E j \in 1..Len(log) :
           /\ log[j].absolutePath = p
           /\ IsAnalyzeCall(log[j]) \/ log[j].kind = "binary"

C29_Witness ==
  /\ pc = "done"
  /\ processQueue = <<>>
  /\ \E k \in Analyzed, b, c \in 1..Len(log) :
       /\ k < b /\ k < c
       /\ log[b].kind = "binary" /\ log[b].absolutePath \in ExecPaths(log[k])
       /\ log[c].kind = "analyzed" /\ log[c].absolutePath \in ExecPaths(log[k])

C30_Keys == DOMAIN fileDependencies

C30_Inv ==
  /\ C30_Keys \subseteq processedFiles
  /\ \A p \in C30_Keys :
       \/ \E i \in 1..Len(entryPoints) : EntryKey(i) = p
       \/ \E j, k \in 1..Len(log) :
            /\ j < k /\ log[j].kind = "analyzed" /\ p \in ExecPaths(log[j])
            /\ log[k].absolutePath = p /\ IsAnalyzeCall(log[k])
  /\ Cardinality(C30_Keys) <= Cardinality(processedFiles)
  /\ Cardinality(processedFiles) <= Len(log)
  /\ Len(log) <= MAX_ITERATIONS

\* C30: every key of the graph is visited and is an entry point or an execute
\* entry of an earlier analyzed node; the visited set only grows; and
\* keys <= visited <= dequeues <= MAX_ITERATIONS
C30_GraphWithinVisited ==
  /\ []C30_Inv
  /\ [][processedFiles \subseteq processedFiles']_vars

C30_Witness ==
  /\ C30_Keys # {}
  /\ Cardinality(C30_Keys) < Cardinality(processedFiles)
  /\ Cardinality(processedFiles) < Len(log)
  /\ \E p \in C30_Keys : \A i \in 1..Len(entryPoints) : EntryKey(i) # p

----------------------------------------------------------------------------
(* The worklist loop: reproducible order, one analysis at a time *)

\* an execute entry with the type the file system gives its resolved path
C27_Typed(e) ==
  [pwd |-> e.pwd, path |-> e.path, args |-> e.args,
   description |-> e.description,
   fileType |-> FsType(resolveUnixPath(e.pwd, e.path))]

\* the run replayed from the entry points, the file types and the replies
\* the oracle gave: replies are taken by dequeue number and the execute
\* entries of a reply are appended in the order of the reply
RECURSIVE C27_Replay(_, _, _, _)
C27_Replay(queue, visited, dequeued, k) ==
  IF k > Len(log)
  THEN [queue |-> queue, visited |-> visited, dequeued |-> dequeued,
        complete |-> TRUE]
  ELSE IF queue = <<>>
  THEN [queue |-> queue, visited |-> visited, dequeued |-> dequeued,
        complete |-> FALSE]
  ELSE LET unit == Head(queue)
           p == resolveUnixPath(unit.pwd, unit.path)
       IN IF p \in visited
          THEN C27_Replay(Tail(queue), visited, Append(dequeued, unit), k + 1)
          ELSE IF unit.fileType \notin {Undefined, ""} \/ log[k].kind # "analyzed"
          THEN C27_Replay(Tail(queue), visited \cup {p},
                          Append(dequeued, unit), k + 1)
          ELSE C27_Replay(
                 Tail(queue) \o
                   [i \in 1..Len(log[k].result.executeFiles) |->
                      C27_Typed(log[k].result.executeFiles[i])],
                 visited \cup {p}, Append(dequeued, unit), k + 1)

C27_InFlight == {k \in 1..Len(log) : log[k].kind = "analyzing"}

\* C27: the dequeued units, the waiting units and the visited set are the
\* ones of the replay, which knows nothing of the order the type detections
\* settled in; and at most one analyze call is in flight, the one of the
\* latest dequeue
C27_ReproducibleOrder ==
  LET replay == C27_Replay(entryPoints, {}, <<>>, 1)
  IN /\ replay.complete
     /\ replay.dequeued = [k \in 1..Len(log) |-> log[k].unit]
     /\ replay.queue = processQueue
     /\ replay.visited = processedFiles
     /\ C27_InFlight \subseteq {Len(log)}
     /\ (pc = "analyzing") <=> (C27_InFlight # {})

\* two execute entries of one record with different types, dequeued in the
\* order of the record while a later analyze call is in flight
C27_Witness ==
  /\ pc = "analyzing"
  /\ \E k \in Analyzed :
       /\ Len(log[k].result.executeFiles) = 2
       /\ \E i, j \in 1..Len(log) :
            /\ k < i /\ j = i + 1
            /\ log[i].unit = C27_Typed(log[k].result.executeFiles[1])
            /\ log[j].unit = C27_Typed(log[k].result.executeFiles[2])
            /\ log[i].unit.fileType # log[j].unit.fileType

----------------------------------------------------------------------------
(* visualizeDependencyGraph: cycles, order, prefixes, sibling branches *)

EntryLines == {k \in 1..Len(lines) : ~lines[k].blank}

OnChain(k) == \E i \in 1..Len(lines[k].chain) : lines[k].chain[i] = lines[k].path

\* the lines directly under line k
ChildLines(k) ==
  {j \in EntryLines :
     /\ lines[j].tree = lines[k].tree
     /\ lines[j].chain = Append(lines[k].chain, lines[k].path)}

\* a line whose path is among its ancestors carries the marker, and no line
\* sits below a path that repeats on its chain
C21_MarkerInv ==
  \A k \in EntryLines :
    /\ OnChain(k) => lines[k].circular
    /\ \A i, j \in 1..Len(lines[k].chain) :
         lines[k].chain[i] = lines[k].chain[j] => i = j
    /\ lines[k].circular => ChildLines(k) = {}

\* C21: visualizeDependencyGraph returns for every graph and root list, with
\* cycles and self-loops too: a node whose path is among its ancestors is
\* emitted with the [CIRCULAR] marker and is not expanded
C21_CyclesMarkedAndFinite ==
  /\ []C21_MarkerInv
  /\ <>(treeState = "done")

\* a -> B -> a: the line for a under B carries the marker
C21_Witness ==
  /\ treeState = "done"
  /\ DOMAIN graph = {<<"a">>, <<"B">>}
  /\ graph[<<"a">>] = <<Edge(<<"B">>, "execute", "elf")>>
  /\ graph[<<"B">>] = <<Edge(<<"a">>, "execute", Undefined)>>
  /\ \E k \in EntryLines :
       /\ lines[k].path = <<"a">>
       /\ lines[k].chain = <<<<"a">>, <<"B">>>>
       /\ lines[k].circular
       /\ k = Len(lines) \/ lines[k + 1].indent = 0

\* UTF-16 code unit of the characters used in paths
C22_CodeUnit(c) ==
  IF \E i \in 1..26 : c = UpperCase[i]
  THEN 64 + (CHOOSE i \in 1..26 : c = UpperCase[i])
  ELSE IF \E i \in 1..26 : c = LowerCase[i]
  THEN 96 + (CHOOSE i \in 1..26 : c = LowerCase[i])
  ELSE 47

RECURSIVE C22_LexLeq(_, _, _)
C22_LexLeq(a, b, i) ==
  IF i > Len(a) THEN TRUE
  ELSE IF i > Len(b) THEN FALSE
  ELSE IF C22_CodeUnit(a[i]) < C22_CodeUnit(b[i]) THEN TRUE
  ELSE IF C22_CodeUnit(a[i]) > C22_CodeUnit(b[i]) THEN FALSE
  ELSE C22_LexLeq(a, b, i + 1)

\* C22: top-level trees appear in ascending lexicographic order of root
\* path, and the child lines of a node in ascending lexicographic order of
\* target path
C22_LexicographicOrder ==
  \A j, k \in EntryLines :
    j < k =>
      /\ (lines[j].indent = 0 /\ lines[k].indent = 0)
           => C22_LexLeq(lines[j].path, lines[k].path, 1)
      /\ (lines[j].indent >= 1 /\ lines[j].tree = lines[k].tree
            /\ lines[j].chain = lines[k].chain)
           => C22_LexLeq(lines[j].path, lines[k].path, 1)

C23_Column(prefix, i) == SubSeq(prefix, 4 * (i - 1) + 1, 4 * i)

\* C23: in the prefix of a line at depth >= 1, the column of an ancestor
\* that is not the last child of its parent holds a continuation bar and the
\* column of an ancestor that is the last child holds blanks only
C23_PrefixFromAncestors ==
  \A k \in EntryLines :
    lines[k].indent >= 1 =>
      /\ Len(lines[k].prefix) = 4 * lines[k].indent
      /\ \A i \in 1..(lines[k].indent - 1) :
           IF lines[k].lasts[i]
           THEN C23_Column(lines[k].prefix, i) = Blank4
           ELSE /\ C23_Column(lines[k].prefix, i)[1] = "|"
                /\ C23_Column(lines[k].prefix, i) # Branch

C28_Expanded(k) ==
  Cardinality(ChildLines(k)) =
    IF lines[k].path \in DOMAIN graph THEN Len(graph[lines[k].path]) ELSE 0

\* C28: only a node whose path lies on its own ancestor chain is marked; any
\* other node is expanded with all its edges wherever it appears, also when
\* a sibling branch rendered it before
C28_MarkedOnlyOnChain ==
  /\ \A k \in EntryLines : lines[k].circular => OnChain(k)
  /\ treeState = "done" =>
       \A k \in EntryLines : ~OnChain(k) => C28_Expanded(k)

\* a diamond without a cycle: c under a and under B, B with its subtree
C28_Witness ==
  /\ treeState = "done"
  /\ DOMAIN graph = {<<"a">>, <<"B">>}
  /\ Len(graph[<<"a">>]) = 2
  /\ graph[<<"B">>] = <<Edge(<<"c">>, "read", Undefined)>>
  /\ \E i, j \in EntryLines :
       /\ i < j
       /\ lines[i].path = <<"c">> /\ lines[j].path = <<"c">>
       /\ lines[i].chain = <<<<"a">>, <<"B">>>>
       /\ lines[j].chain = <<<<"a">>>>
       /\ ~lines[i].circular /\ ~lines[j].circular
====
